---- MODULE Spec2Model ----
(***************************************************************************)
(* Model of scl_time.py: the half-open DateTimeInterval value type, the    *)
(* MultiStatusInterval segment map (mark / status) and the generator       *)
(* intersection_of_intervals.                                              *)
(*                                                                         *)
(* Instants (aware datetimes) are the integers 0..MaxT: a totally ordered  *)
(* domain, which is all the modelled code uses of them.                    *)
(***************************************************************************)
EXTENDS Integers, Sequences, FiniteSets, TLC

\* ------------------------------------------------------------------ bounds
\* Largest instant of the segment-map model.
MaxT == 3
\* Cap on the stored segment list (marking empty intervals grows it unboundedly).
MaxSegs == 4
\* Largest instant and longest input stream of the intersection model.
MaxI == 4
MaxLen == 2
\* Largest representable instant of the tiling model (DATE_TIME_MAX).
MaxTile == 5

\* ------------------------------------------------------------------ values
\* Python's None (as a status, as "no interval", as "no segment").
None == [none |-> TRUE]
\* A str object used as a status label.
Str(s) == [str |-> s]
\* isinstance(status, (str, bytes))
IsStr(status) == "str" \in DOMAIN status
\* Status values a caller passes: str instances, and values that are not.
StrStatuses == {Str("A"), Str("B")}
NonStrStatuses == {None}

Instants == 0..MaxT

\* DateTimeInterval.__init__: raises ValueError when end < start, so the
\* constructible intervals are exactly those with start <= end.
DateTimeInterval(start, end) == [start |-> start, end |-> end]
AllIntervals(T) == {iv \in [start : T, end : T] : iv.start <= iv.end}
Intervals == AllIntervals(Instants)

_SingleStatusInterval(status, iv) == [status |-> status, interval |-> iv]

Max(a, b) == IF a >= b THEN a ELSE b
Min(a, b) == IF a <= b THEN a ELSE b

\* ------------------------------------------------- DateTimeInterval methods
contains(self, dt) == self.start <= dt /\ dt < self.end

covers(self, ti) == contains(self, ti.start) /\ self.start <= ti.end /\ ti.end <= self.end

\* Variant of overlaps whose comparisons are not strict: intervals that only
\* touch count as overlapping.
overlapsTouching(self, ti) == ti.start <= self.end /\ self.start <= ti.end

overlaps(self, ti) == ti.start < self.end /\ self.start < ti.end

\* Variant of overlap with max and min exchanged.
overlapHull(self, ti) ==
    IF ~overlaps(self, ti) THEN None
    ELSE DateTimeInterval(Min(self.start, ti.start), Max(self.end, ti.end))

overlap(self, ti) ==
    IF ~overlaps(self, ti) THEN None
    ELSE DateTimeInterval(Max(self.start, ti.start), Min(self.end, ti.end))

is_before(self, other) == self.end <= other.start

\* Variant of is_after that forgets to exchange the two intervals.
isAfterUnflipped(self, other) == is_before(self, other)

is_after(self, other) == is_before(other, self)

starts_after(self, dt) == self.start > dt

\* ------------------------------------------------------------------ state
VARIABLES
    interval,     \* MultiStatusInterval._interval (the bounding interval)
    intervals,    \* MultiStatusInterval._intervals (the stored segments)
    marked,       \* history: instant -> status of the latest mark covering it
    lastCall,     \* history: the last mark call and how it ended
    interval0,    \* history: the bounding interval given to the constructor
    intervals1,   \* intersection: what is left of the first input stream
    intervals2,   \* intersection: what is left of the second input stream
    i1,           \* intersection: current interval of stream 1
    i2,           \* intersection: current interval of stream 2
    emitted,      \* intersection: the intervals yielded so far
    in1,          \* history: the first input stream as given
    in2,          \* history: the second input stream as given
    pc,           \* intersection: position of the generator
    tInterval,    \* tiling: the interval whose intervals() is called (self)
    tLength,      \* tiling: interval_length
    tLimit,       \* tiling: limit_by_end / limit_to_end
    tStart,       \* tiling: the loop variable start of time_intervals_between
    pieces,       \* tiling: the sub-intervals yielded so far
    tpc,          \* tiling: position of the generator
    ox,           \* overlap: self
    oy,           \* overlap: time_interval
    oResult,      \* overlap: what x.overlap(y) returned
    opc           \* overlap: "call" before, "done" after the call

msiVars == <<interval, intervals, marked, lastCall, interval0>>
interVars == <<intervals1, intervals2, i1, i2, emitted, in1, in2, pc>>
tileVars == <<tInterval, tLength, tLimit, tStart, pieces, tpc>>
overlapVars == <<ox, oy, oResult, opc>>
vars == <<interval, intervals, marked, lastCall, interval0,
          intervals1, intervals2, i1, i2, emitted, in1, in2, pc,
          tInterval, tLength, tLimit, tStart, pieces, tpc,
          ox, oy, oResult, opc>>

\* ------------------------------------------------------- segment map: mark
\* Variant of _non_overlapping_intervals that loses the remainder after
\* with_interval.
NonOverlappingDropAfter(of_interval, with_interval) ==
    [before |-> IF with_interval.start > of_interval.start
                THEN DateTimeInterval(of_interval.start, with_interval.start)
                ELSE None,
     after  |-> None]

\* Variant of _non_overlapping_intervals that loses the remainder before
\* with_interval.
NonOverlappingDropBefore(of_interval, with_interval) ==
    [before |-> None,
     after  |-> IF of_interval.end > with_interval.end
                THEN DateTimeInterval(with_interval.end, of_interval.end)
                ELSE None]

_non_overlapping_intervals(of_interval, with_interval) ==
    [before |-> IF with_interval.start > of_interval.start
                THEN DateTimeInterval(of_interval.start, with_interval.start)
                ELSE None,
     after  |-> IF of_interval.end > with_interval.end
                THEN DateTimeInterval(with_interval.end, of_interval.end)
                ELSE None]

\* Variant of the smoothing loop whose `elif last_status_interval` is an `if`:
\* the left part of a merged run is appended as well.
RECURSIVE SmoothLoopKeepLeft(_, _, _, _)
SmoothLoopKeepLeft(rest, smoothed, last, ok) ==
    IF rest = <<>> THEN
        [smoothed |-> IF last /= None THEN Append(smoothed, last) ELSE smoothed,
         ok |-> ok]
    ELSE
        LET si == Head(rest)
            asserted == last = None \/ last.interval.end <= si.interval.start
            kept == IF last /= None THEN Append(smoothed, last) ELSE smoothed
        IN  IF last /= None /\ last.status = si.status
               /\ last.interval.end = si.interval.start
            THEN SmoothLoopKeepLeft(Tail(rest), kept,
                     _SingleStatusInterval(last.status,
                         DateTimeInterval(last.interval.start, si.interval.end)),
                     ok /\ asserted)
            ELSE SmoothLoopKeepLeft(Tail(rest), kept, si, ok /\ asserted)

\* The loop of _smooth_status_intervals: `last` is last_status_interval (None
\* before the first element), `ok` turns FALSE when the ordering assertion fails.
RECURSIVE SmoothLoop(_, _, _, _)
SmoothLoop(rest, smoothed, last, ok) ==
    IF rest = <<>> THEN
        [smoothed |-> IF last /= None THEN Append(smoothed, last) ELSE smoothed,
         ok |-> ok]
    ELSE
        LET si == Head(rest)
            asserted == last = None \/ last.interval.end <= si.interval.start
        IN  IF last /= None /\ last.status = si.status
               /\ last.interval.end = si.interval.start
            THEN SmoothLoop(Tail(rest), smoothed,
                     _SingleStatusInterval(last.status,
                         DateTimeInterval(last.interval.start, si.interval.end)),
                     ok /\ asserted)
            ELSE SmoothLoop(Tail(rest),
                     IF last /= None THEN Append(smoothed, last) ELSE smoothed,
                     si, ok /\ asserted)

\* Variant of _smooth_status_intervals that merges nothing.
SmoothNothing(status_intervals) ==
    [smoothed |-> status_intervals,
     ok |-> SmoothLoop(status_intervals, <<>>, None, TRUE).ok]

_smooth_status_intervals(status_intervals) ==
    SmoothLoop(status_intervals, <<>>, None, TRUE)

\* Variant of the _mark loop whose case (2) appends to_add without looking at
\* did_add.
RECURSIVE MarkLoopAlwaysInsert(_, _, _, _, _, _)
MarkLoopAlwaysInsert(rest, to_add, acc, did_add, ok, adds) ==
    IF rest = <<>> THEN
        [intervals |-> IF ~did_add THEN Append(acc, to_add) ELSE acc,
         ok |-> ok,
         adds |-> IF ~did_add THEN adds + 1 ELSE adds]
    ELSE
        LET si == Head(rest) IN
        IF is_after(to_add.interval, si.interval) THEN
            MarkLoopAlwaysInsert(Tail(rest), to_add, Append(acc, si), did_add, ok, adds)
        ELSE IF is_before(to_add.interval, si.interval) THEN
            MarkLoopAlwaysInsert(Tail(rest), to_add, acc \o <<to_add, si>>,
                                 TRUE, ok, adds + 1)
        ELSE
            LET ba == _non_overlapping_intervals(si.interval, to_add.interval)
                a1 == IF ba.before /= None
                      THEN Append(acc, _SingleStatusInterval(si.status, ba.before))
                      ELSE acc
                a2 == IF ~did_add THEN Append(a1, to_add) ELSE a1
                a3 == IF ba.after /= None
                      THEN Append(a2, _SingleStatusInterval(si.status, ba.after))
                      ELSE a2
                asserted == /\ overlaps(si.interval, to_add.interval)
                            /\ (ba.before /= None => ~did_add)
            IN  MarkLoopAlwaysInsert(Tail(rest), to_add, a3, TRUE, ok /\ asserted,
                                     IF ~did_add THEN adds + 1 ELSE adds)

\* The for loop of _mark over self._intervals, with the list being rebuilt
\* (acc), did_add, whether every assertion passed so far (ok) and how many
\* times to_add was appended (adds).
RECURSIVE MarkLoop(_, _, _, _, _, _)
MarkLoop(rest, to_add, acc, did_add, ok, adds) ==
    IF rest = <<>> THEN
        [intervals |-> IF ~did_add THEN Append(acc, to_add) ELSE acc,
         ok |-> ok,
         adds |-> IF ~did_add THEN adds + 1 ELSE adds]
    ELSE
        LET si == Head(rest) IN
        IF is_after(to_add.interval, si.interval) THEN
            MarkLoop(Tail(rest), to_add, Append(acc, si), did_add, ok, adds)
        ELSE IF is_before(to_add.interval, si.interval) THEN
            MarkLoop(Tail(rest), to_add,
                     IF ~did_add THEN acc \o <<to_add, si>> ELSE Append(acc, si),
                     TRUE, ok, IF ~did_add THEN adds + 1 ELSE adds)
        ELSE
            LET ba == _non_overlapping_intervals(si.interval, to_add.interval)
                a1 == IF ba.before /= None
                      THEN Append(acc, _SingleStatusInterval(si.status, ba.before))
                      ELSE acc
                a2 == IF ~did_add THEN Append(a1, to_add) ELSE a1
                a3 == IF ba.after /= None
                      THEN Append(a2, _SingleStatusInterval(si.status, ba.after))
                      ELSE a2
                asserted == /\ overlaps(si.interval, to_add.interval)
                            /\ (ba.before /= None => ~did_add)
            IN  MarkLoop(Tail(rest), to_add, a3, TRUE, ok /\ asserted,
                         IF ~did_add THEN adds + 1 ELSE adds)

\* Variant of _mark that stores the rebuilt list without smoothing it.
markUnsmoothed(segs, to_add) ==
    LET built == MarkLoop(segs, to_add, <<>>, FALSE, TRUE, 0)
    IN  [intervals |-> built.intervals,
         ok |-> built.ok /\ _smooth_status_intervals(built.intervals).ok,
         adds |-> built.adds]

\* MultiStatusInterval._mark: the rebuilt and smoothed list, and whether the
\* call got there without an AssertionError.
_mark(segs, to_add) ==
    LET built == MarkLoop(segs, to_add, <<>>, FALSE, TRUE, 0)
        sm == _smooth_status_intervals(built.intervals)
    IN  [intervals |-> sm.smoothed, ok |-> built.ok /\ sm.ok, adds |-> built.adds]

\* Variant of mark that passes the interval on without clipping it to the
\* bounding interval.
markUnclipped(bounding, segs, iv, status) ==
    IF ~IsStr(status) THEN
        [intervals |-> segs, result |-> "ValueError"]
    ELSE
        IF overlap(bounding, iv) = None THEN [intervals |-> segs, result |-> "noop"]
        ELSE LET r == _mark(segs, _SingleStatusInterval(status, iv)) IN
             IF r.ok THEN [intervals |-> r.intervals, result |-> "marked"]
             ELSE [intervals |-> segs, result |-> "AssertionError"]

\* Variant of mark that clips first and looks at the status afterwards.
markClipFirst(bounding, segs, iv, status) ==
    LET clipped == overlap(bounding, iv) IN
    IF clipped = None THEN [intervals |-> segs, result |-> "noop"]
    ELSE IF ~IsStr(status) THEN [intervals |-> segs, result |-> "ValueError"]
    ELSE LET r == _mark(segs, _SingleStatusInterval(status, clipped)) IN
         IF r.ok THEN [intervals |-> r.intervals, result |-> "marked"]
         ELSE [intervals |-> segs, result |-> "AssertionError"]

\* MultiStatusInterval.mark as a function of the object's state: the new
\* stored list and the way the call ends.
mark(bounding, segs, iv, status) ==
    IF ~IsStr(status) THEN
        [intervals |-> segs, result |-> "ValueError"]
    ELSE
        LET clipped == overlap(bounding, iv) IN
        IF clipped = None THEN [intervals |-> segs, result |-> "noop"]
        ELSE LET r == _mark(segs, _SingleStatusInterval(status, clipped)) IN
             IF r.ok THEN [intervals |-> r.intervals, result |-> "marked"]
             ELSE [intervals |-> segs, result |-> "AssertionError"]

\* ----------------------------------------------------- segment map: status
\* Variant of the scan of status() that stops at a segment starting at or
\* after the instant.
RECURSIVE StatusLoopEarlyBreak(_, _)
StatusLoopEarlyBreak(rest, dt) ==
    IF rest = <<>> THEN None
    ELSE IF Head(rest).interval.start >= dt THEN None
    ELSE IF contains(Head(rest).interval, dt) THEN Head(rest).status
    ELSE StatusLoopEarlyBreak(Tail(rest), dt)

\* The scan of status() over the stored segments.
RECURSIVE StatusLoop(_, _)
StatusLoop(rest, dt) ==
    IF rest = <<>> THEN None
    ELSE IF starts_after(Head(rest).interval, dt) THEN None
    ELSE IF contains(Head(rest).interval, dt) THEN Head(rest).status
    ELSE StatusLoop(Tail(rest), dt)

statusOf(bounding, segs, dt) ==
    IF contains(bounding, dt) THEN StatusLoop(segs, dt) ELSE None

status(dt) == statusOf(interval, intervals, dt)

\* --------------------------------------------------- segment map: actions
NoCall == [interval |-> None, status |-> None, result |-> "none"]

IdleIntersection ==
    /\ intervals1 = <<>> /\ intervals2 = <<>>
    /\ i1 = None /\ i2 = None
    /\ emitted = <<>>
    /\ in1 = <<>> /\ in2 = <<>>
    /\ pc = "idle"

\* No tiling generator exists.
IdleTiling ==
    /\ tInterval = None /\ tLength = 0 /\ tLimit = FALSE
    /\ tStart = 0 /\ pieces = <<>> /\ tpc = "idle"

\* No overlap call is being looked at.
IdleOverlap == ox = None /\ oy = None /\ oResult = None /\ opc = "idle"

\* MultiStatusInterval.__init__
Init ==
    /\ interval \in Intervals
    /\ interval0 = interval
    /\ intervals = <<>>
    /\ marked = [t \in Instants |-> None]
    /\ lastCall = NoCall
    /\ IdleIntersection
    /\ IdleTiling
    /\ IdleOverlap

\* mark(iv, status) with a str status.
Mark ==
    \E iv \in Intervals, st \in StrStatuses :
        LET r == mark(interval, intervals, iv, st) IN
        /\ Len(r.intervals) <= MaxSegs
        /\ intervals' = r.intervals
        /\ marked' = IF r.result \in {"marked", "noop"}
                     THEN [t \in Instants |->
                             IF contains(iv, t) /\ contains(interval, t)
                             THEN st ELSE marked[t]]
                     ELSE marked
        /\ lastCall' = [interval |-> iv, status |-> st, result |-> r.result]
        /\ UNCHANGED <<interval, interval0>>
        /\ UNCHANGED <<interVars, tileVars, overlapVars>>

\* mark(iv, status) with a status that is not a str: raises ValueError.
MarkInvalid ==
    \E iv \in Intervals, st \in NonStrStatuses :
        LET r == mark(interval, intervals, iv, st) IN
        /\ intervals' = r.intervals
        /\ lastCall' = [interval |-> iv, status |-> st, result |-> r.result]
        /\ UNCHANGED <<interval, interval0, marked>>
        /\ UNCHANGED <<interVars, tileVars, overlapVars>>

Next == Mark \/ MarkInvalid

Spec == Init /\ [][Next]_vars

\* ------------------------------------------- intersection_of_intervals
InterInstants == 0..MaxI

\* The input streams of the docstring: non-overlapping intervals in ascending
\* order, each ending at or before the start of the next.
RECURSIVE AscendingFrom(_, _)
AscendingFrom(lo, n) ==
    IF n = 0 THEN {<<>>}
    ELSE {<<>>} \cup
         UNION {{<<iv>> \o rest : rest \in AscendingFrom(iv.end, n - 1)} :
                iv \in AllIntervals(lo..MaxI)}
InputStreams == AscendingFrom(0, MaxLen)

\* How a StopIteration raised by next() inside the generator body reaches the
\* consumer: the generator just ends (Python before 3.7), or the StopIteration
\* is turned into a RuntimeError (PEP 479, Python 3.7 and later).
StopIterationOutcomes == {"done", "RuntimeError"}

Stopped == {"done", "RuntimeError", "AssertionError"}

\* Variant of the test before `i1 = next(intervals1)` that never advances.
AdvancesNever(cur, ov) == cur.end < ov.end

\* if i1.end == overlap.end: i1 = next(intervals1)
AdvancesFirst(cur, ov) == cur.end = ov.end

\* Variant of the test before `i2 = next(intervals2)` that always advances.
AdvancesAlways(cur, ov) == cur.end >= ov.end

\* if i2.end == overlap.end: i2 = next(intervals2)
AdvancesSecond(cur, ov) == cur.end = ov.end

\* The assertions a) to d) after the yield.
ProgressAsserts(a, b, ov) ==
    /\ a.end >= ov.end
    /\ b.end >= ov.end
    /\ ~(a.end > ov.end /\ b.end > ov.end)
    /\ (a.end = ov.end \/ b.end = ov.end)

\* Called on two iterators over the input streams; nothing has run yet.
InitIntersection ==
    /\ in1 \in InputStreams
    /\ in2 \in InputStreams
    /\ intervals1 = in1
    /\ intervals2 = in2
    /\ i1 = None
    /\ i2 = None
    /\ emitted = <<>>
    /\ pc = "start"
    /\ interval = DateTimeInterval(0, 0)
    /\ interval0 = interval
    /\ intervals = <<>>
    /\ marked = [t \in Instants |-> None]
    /\ lastCall = NoCall
    /\ IdleTiling
    /\ IdleOverlap

\* i1 = next(intervals1); i2 = next(intervals2)
Start ==
    /\ pc = "start"
    /\ IF intervals1 = <<>> THEN
           /\ pc' \in StopIterationOutcomes
           /\ UNCHANGED <<intervals1, intervals2, i1, i2>>
       ELSE IF intervals2 = <<>> THEN
           /\ i1' = Head(intervals1)
           /\ intervals1' = Tail(intervals1)
           /\ pc' \in StopIterationOutcomes
           /\ UNCHANGED <<intervals2, i2>>
       ELSE
           /\ i1' = Head(intervals1)
           /\ intervals1' = Tail(intervals1)
           /\ i2' = Head(intervals2)
           /\ intervals2' = Tail(intervals2)
           /\ pc' = "loop"
    /\ UNCHANGED <<emitted, in1, in2>>
    /\ UNCHANGED <<msiVars, tileVars, overlapVars>>

\* if i1.is_before(i2): i1 = next(intervals1); continue
SkipFirst ==
    /\ pc = "loop"
    /\ i1 /= None /\ i2 /= None
    /\ is_before(i1, i2)
    /\ IF intervals1 = <<>> THEN
           /\ pc' \in StopIterationOutcomes
           /\ UNCHANGED <<intervals1, i1>>
       ELSE
           /\ i1' = Head(intervals1)
           /\ intervals1' = Tail(intervals1)
           /\ pc' = "loop"
    /\ UNCHANGED <<intervals2, i2, emitted, in1, in2>>
    /\ UNCHANGED <<msiVars, tileVars, overlapVars>>

\* if i1.is_after(i2): i2 = next(intervals2); continue
SkipSecond ==
    /\ pc = "loop"
    /\ i1 /= None /\ i2 /= None
    /\ ~is_before(i1, i2)
    /\ is_after(i1, i2)
    /\ IF intervals2 = <<>> THEN
           /\ pc' \in StopIterationOutcomes
           /\ UNCHANGED <<intervals2, i2>>
       ELSE
           /\ i2' = Head(intervals2)
           /\ intervals2' = Tail(intervals2)
           /\ pc' = "loop"
    /\ UNCHANGED <<intervals1, i1, emitted, in1, in2>>
    /\ UNCHANGED <<msiVars, tileVars, overlapVars>>

\* The rest of the loop body: assert, yield the overlap, assert a) to d), then
\* advance the stream(s) whose current interval ends with the overlap.
Emit ==
    /\ pc = "loop"
    /\ i1 /= None /\ i2 /= None
    /\ ~is_before(i1, i2)
    /\ ~is_after(i1, i2)
    /\ IF ~overlaps(i1, i2) THEN
           /\ pc' = "AssertionError"
           /\ UNCHANGED <<intervals1, intervals2, i1, i2, emitted>>
       ELSE
           LET ov == overlap(i1, i2)
               adv1 == AdvancesFirst(i1, ov)
               adv2 == AdvancesSecond(i2, ov)
               stop1 == adv1 /\ intervals1 = <<>>
               stop2 == ~stop1 /\ adv2 /\ intervals2 = <<>>
           IN  /\ emitted' = Append(emitted, ov)
               /\ IF ~ProgressAsserts(i1, i2, ov) THEN
                      /\ pc' = "AssertionError"
                      /\ UNCHANGED <<intervals1, intervals2, i1, i2>>
                  ELSE
                      /\ IF adv1 /\ ~stop1
                         THEN i1' = Head(intervals1) /\ intervals1' = Tail(intervals1)
                         ELSE UNCHANGED <<i1, intervals1>>
                      /\ IF ~stop1 /\ adv2 /\ ~stop2
                         THEN i2' = Head(intervals2) /\ intervals2' = Tail(intervals2)
                         ELSE UNCHANGED <<i2, intervals2>>
                      /\ IF stop1 \/ stop2
                         THEN pc' \in StopIterationOutcomes
                         ELSE pc' = "loop"
    /\ UNCHANGED <<in1, in2>>
    /\ UNCHANGED <<msiVars, tileVars, overlapVars>>

NextIntersection == Start \/ SkipFirst \/ SkipSecond \/ Emit

SpecIntersection == InitIntersection /\ [][NextIntersection]_vars

\* ------------------------------------------------ intersection: properties
Elems(seq) == {seq[k] : k \in 1..Len(seq)}
ContainedBy(i, a) == a.start <= i.start /\ i.end <= a.end
\* The instants covered by some interval of a sequence.
Covered(seq) == {t \in InterInstants : \E a \in Elems(seq) : contains(a, t)}

\* C6: soundness. Every emitted interval is contained by some interval of the
\* first input and by some interval of the second.
C6_Sound ==
    \A i \in Elems(emitted) :
        /\ \E a \in Elems(in1) : ContainedBy(i, a)
        /\ \E b \in Elems(in2) : ContainedBy(i, b)

\* A non-empty interval was emitted that is a proper part of an interval of
\* each input (it is neither of them).
C6_Witness ==
    \E i \in Elems(emitted) :
        /\ i.start < i.end
        /\ i \notin Elems(in1)
        /\ i \notin Elems(in2)

\* C7: completeness. What has been emitted covers only common instants, and
\* once the generator has stopped the emitted intervals cover exactly the
\* instants that lie in an interval of both inputs.
C7_Complete ==
    /\ Covered(emitted) \subseteq Covered(in1) \cap Covered(in2)
    /\ pc \in Stopped => Covered(emitted) = Covered(in1) \cap Covered(in2)

\* The shape of A = [[0,10),[20,30)], B = [[5,25)]: one interval of the second
\* input spans the gap of the first and ends inside its second interval; two
\* intervals emitted, with the gap between them.
C7_Witness ==
    /\ pc \in Stopped
    /\ Len(in1) = 2 /\ Len(in2) = 1 /\ Len(emitted) = 2
    /\ in1[1].end < in1[2].start
    /\ emitted[1] = DateTimeInterval(Max(in1[1].start, in2[1].start), in1[1].end)
    /\ emitted[2] = DateTimeInterval(in1[2].start, in2[1].end)
    /\ emitted[1].start < emitted[1].end
    /\ in2[1].end < in1[2].end

\* C8: the emitted sequence is ascending and non-overlapping: each emitted
\* interval ends at or before the start of the next.
C8_AscendingOutput ==
    \A k \in 1..(Len(emitted) - 1) :
        /\ emitted[k].end <= emitted[k + 1].start
        /\ ~overlaps(emitted[k], emitted[k + 1])

\* Three non-empty intervals emitted, the middle one after an advance of
\* stream 1 only and before an advance of stream 2 only.
C8_Witness ==
    /\ Len(emitted) = 3
    /\ \A k \in 1..3 : emitted[k].start < emitted[k].end
    /\ Len(in1) = 2 /\ Len(in2) = 2
    /\ in1[1].end < in2[1].end
    /\ in2[1].end < in1[2].end

\* C9: with finite inputs the generator ends normally, without raising, when
\* an input stream is exhausted.
C9_EndsNormally == pc \in Stopped => pc = "done"

\* ------------------------------------------------- segment map: properties
Seg(k) == intervals[k]
SegIdx == 1..Len(intervals)
Pairs == 1..(Len(intervals) - 1)
Succeeded == lastCall.result \in {"marked", "noop"}

\* C1: last writer wins. At every instant t, status(t) is the status of the
\* latest successful mark whose interval, clipped to the bounding interval,
\* contains t, and None when there is no such mark.
C1_LastWriterWins == \A t \in Instants : status(t) = marked[t]

\* A mark has cut an existing segment in two: the parts outside the marked
\* interval keep the old status.
C1_Witness ==
    /\ lastCall.result = "marked"
    /\ Len(intervals) = 3
    /\ Seg(1).status = Seg(3).status
    /\ Seg(2).status /= Seg(1).status
    /\ Seg(2).interval = lastCall.interval
    /\ Seg(1).interval.end = Seg(2).interval.start
    /\ Seg(2).interval.end = Seg(3).interval.start
    /\ Seg(2).interval.start < Seg(2).interval.end
    /\ status(Seg(1).interval.start) = Seg(1).status
    /\ status(Seg(3).interval.start) = Seg(1).status

\* C2: smoothing. No two consecutive stored segments have both an equal
\* status and a shared boundary.
C2_Smoothed ==
    \A k \in Pairs :
        ~(Seg(k).status = Seg(k + 1).status
          /\ Seg(k).interval.end = Seg(k + 1).interval.start)

\* mark([a,b), X) directly after a segment [_, a) = X: one merged segment.
C2_Witness ==
    /\ lastCall.result = "marked"
    /\ Len(intervals) = 1
    /\ Seg(1).status = lastCall.status
    /\ Seg(1).interval.start < lastCall.interval.start
    /\ lastCall.interval.start < lastCall.interval.end
    /\ Seg(1).interval.end = lastCall.interval.end

\* C3: ordering. Consecutive stored segments are ascending and do not overlap.
C3_Ordered ==
    \A k \in Pairs :
        /\ Seg(k).interval.end <= Seg(k + 1).interval.start
        /\ ~overlaps(Seg(k).interval, Seg(k + 1).interval)

\* A mark overwrote the middle of a run of segments: the list has a gap and
\* several segments, still in order.
C3_Witness ==
    /\ lastCall.result = "marked"
    /\ Len(intervals) >= 3
    /\ \E k \in Pairs : Seg(k).interval.end < Seg(k + 1).interval.start
    /\ \E k \in Pairs : Seg(k).interval.end = Seg(k + 1).interval.start

\* C4: domain. Every stored segment lies inside the bounding interval, and
\* the bounding interval is the one given at construction.
C4_InDomain ==
    /\ \A k \in SegIdx :
          /\ interval.start <= Seg(k).interval.start
          /\ Seg(k).interval.end <= interval.end
    /\ interval = interval0

\* A mark whose interval sticks out of the bounding interval on both sides
\* was stored, clipped.
C4_Witness ==
    /\ lastCall.result = "marked"
    /\ lastCall.interval.start < interval.start
    /\ interval.end < lastCall.interval.end
    /\ Len(intervals) = 1
    /\ Seg(1).interval = interval

\* C5: idempotence. Calling mark again with the arguments of the call just
\* made leaves the stored list as it is.
C5_Idempotent ==
    lastCall.result /= "none" =>
        LET again == mark(interval, intervals, lastCall.interval, lastCall.status)
        IN  again.intervals = intervals

\* The call just made changed the list (it split a segment), so the second
\* call runs on a different list than the first.
C5_Witness ==
    /\ lastCall.result = "marked"
    /\ Len(intervals) >= 3
    /\ \E k \in SegIdx : /\ Seg(k).interval = lastCall.interval
                          /\ Seg(k).status = lastCall.status
                          /\ k > 1 /\ k < Len(intervals)

\* The stored segments that contain instant t.
Containing(t) == {k \in SegIdx : contains(Seg(k).interval, t)}

\* C10: status is None outside the bounding interval; inside, it is the
\* status of the one stored segment containing the instant, None if there is
\* none.
C10_StatusDomain ==
    \A t \in Instants :
        IF ~contains(interval, t) THEN status(t) = None
        ELSE /\ Cardinality(Containing(t)) <= 1
             /\ Containing(t) = {} => status(t) = None
             /\ \A k \in Containing(t) : status(t) = Seg(k).status

\* Instants outside the domain that a mark covered, instants inside with a
\* status (one of them the start of a later segment) and one inside without.
C10_Witness ==
    /\ lastCall.result = "marked"
    /\ \E t \in Instants : ~contains(interval, t) /\ contains(lastCall.interval, t)
    /\ Len(intervals) >= 2
    /\ status(Seg(2).interval.start) = Seg(2).status
    /\ \E t \in Instants : contains(interval, t) /\ status(t) = None

\* C11: a mark whose status is not a str ends with the ValueError of the
\* status check, whatever its interval (also one outside the bounding
\* interval), and leaves the stored list as it was.
C11_InvalidStatus ==
    [][(lastCall'.result /= "none" /\ ~IsStr(lastCall'.status)) =>
          (lastCall'.result = "ValueError" /\ intervals' = intervals)]_vars

\* A mark with status None and an interval outside the bounding interval has
\* raised ValueError on a map that holds segments.
C11_Witness ==
    /\ lastCall.result = "ValueError"
    /\ lastCall.status = None
    /\ Len(intervals) >= 2
    /\ (lastCall.interval.end <= interval.start \/ interval.end <= lastCall.interval.start)

\* The interval has no instant in common with the bounding interval, in the
\* sense of overlaps: bounding.overlap(iv) is absent.
NoOverlapWithDomain(iv) == ~(iv.start < interval.end /\ interval.start < iv.end)

\* C12: a mark with a str status whose interval does not overlap the bounding
\* interval leaves the stored list as it was.
C12_OutsideIsNoop ==
    [][(lastCall'.result /= "none" /\ IsStr(lastCall'.status)
        /\ NoOverlapWithDomain(lastCall'.interval)) => intervals' = intervals]_vars

\* A mark of a non-empty interval that touches the bounding interval from
\* outside was a no-op on a map that holds segments.
C12_Witness ==
    /\ lastCall.result = "noop"
    /\ IsStr(lastCall.status)
    /\ Len(intervals) >= 1
    /\ lastCall.interval.start < lastCall.interval.end
    /\ (lastCall.interval.end = interval.start \/ interval.end = lastCall.interval.start)

\* ------------------------------------------------------------------ tiling
\* DATE_TIME_MIN and DATE_TIME_MAX: the smallest and the largest datetime.
DateMin == 0
DateMax == MaxTile
TileInstants == DateMin..DateMax

\* timedelta values: negative, zero and positive lengths.
Lengths == -1..MaxTile

is_start_infinite(self) == self.start = DateMin
is_end_infinite(self) == self.end = DateMax
is_infinite(self) == is_start_infinite(self) \/ is_end_infinite(self)

\* One pass through the loop of time_intervals_between with the loop variable
\* at `start`: the loop ends, a piece is yielded and start moves on, the
\* datetime addition leaves the representable range (OverflowError), or the
\* DateTimeInterval constructor refuses end < start (ValueError).
TileIteration(start, end, interval_length, limit_to_end) ==
    IF ~(start < end) THEN [kind |-> "done"]
    ELSE IF start + interval_length \notin TileInstants THEN [kind |-> "OverflowError"]
    ELSE LET sum == start + interval_length
             interval_end == IF limit_to_end /\ sum > end THEN end ELSE sum
         IN  IF interval_end < start THEN [kind |-> "ValueError"]
             ELSE [kind |-> "yield",
                   piece |-> DateTimeInterval(start, interval_end),
                   start |-> interval_end]

\* How many yielded pieces the history keeps (the generator itself keeps none).
PiecesKept == MaxTile + 2

TileStopped == {"done", "ValueError", "OverflowError"}

\* Some interval, some length and some flag, before intervals() is called.
InitTiling ==
    /\ tInterval \in AllIntervals(TileInstants)
    /\ tLength \in Lengths
    /\ tLimit \in BOOLEAN
    /\ tStart = DateMin
    /\ pieces = <<>>
    /\ tpc = "call"
    /\ interval = DateTimeInterval(0, 0)
    /\ interval0 = interval
    /\ intervals = <<>>
    /\ marked = [t \in Instants |-> None]
    /\ lastCall = NoCall
    /\ IdleIntersection
    /\ IdleOverlap

\* DateTimeInterval.intervals: refuses an infinite interval, else hands
\* start, end, length and flag to time_intervals_between.
TileCall ==
    /\ tpc = "call"
    /\ IF is_infinite(tInterval)
       THEN tpc' = "ValueError" /\ UNCHANGED tStart
       ELSE tpc' = "run" /\ tStart' = tInterval.start
    /\ UNCHANGED <<tInterval, tLength, tLimit, pieces>>
    /\ UNCHANGED <<msiVars, interVars, overlapVars>>

\* The consumer pulls the next element of the generator.
TileStep ==
    /\ tpc = "run"
    /\ LET it == TileIteration(tStart, tInterval.end, tLength, tLimit) IN
       IF it.kind = "yield" THEN
           /\ pieces' = IF Len(pieces) < PiecesKept
                        THEN Append(pieces, it.piece) ELSE pieces
           /\ tStart' = it.start
           /\ tpc' = "run"
       ELSE
           /\ tpc' = it.kind
           /\ UNCHANGED <<pieces, tStart>>
    /\ UNCHANGED <<tInterval, tLength, tLimit>>
    /\ UNCHANGED <<msiVars, interVars, overlapVars>>

NextTiling == TileCall \/ TileStep

SpecTiling == InitTiling /\ [][NextTiling]_vars

\* The pieces tile x: the first starts at x.start, each starts where the
\* previous one ended, all but the last have length d, the last ends at x.end.
Tiles(ps, x, d) ==
    IF x.start = x.end THEN ps = <<>>
    ELSE /\ Len(ps) >= 1
         /\ ps[1].start = x.start
         /\ ps[Len(ps)].end = x.end
         /\ \A k \in 1..(Len(ps) - 1) :
               /\ ps[k + 1].start = ps[k].end
               /\ ps[k].end - ps[k].start = d
         /\ \A k \in 1..Len(ps) : ps[k].start < ps[k].end

\* C13: tiling round trip. For a finite interval and a positive length,
\* intervals(d, limit_to_end = True) runs to its end and its pieces
\* concatenate to exactly the interval.
C13_TilingRoundTrip ==
    (tLimit /\ tLength > 0 /\ ~is_infinite(tInterval) /\ tpc /= "call") =>
        /\ tpc \in {"run", "done"}
        /\ tpc = "done" => Tiles(pieces, tInterval, tLength)

\* What does hold: the same, for the calls in which no start + length leaves
\* the representable range.
TilingRoundTripUnlessOverflow ==
    (tLimit /\ tLength > 0 /\ ~is_infinite(tInterval) /\ tpc /= "call") =>
        /\ tpc \in {"run", "done", "OverflowError"}
        /\ tpc = "done" => Tiles(pieces, tInterval, tLength)
        /\ tpc = "OverflowError" => tStart + tLength > DateMax

\* C14: tiling is finite. For a finite interval and any length intervals()
\* accepts, the enumeration reaches its end after finitely many pieces: every
\* pull that does not stop the generator moves start closer to end. (start is
\* all the state the loop has; a pull that leaves it in place repeats for ever.)
C14_TilingEnds ==
    [][(tpc = "run" /\ tpc' = "run") => tStart' > tStart]_vars

\* What does hold: with a length other than zero every pull moves start on.
TilingEndsUnlessZeroLength ==
    [][(tpc = "run" /\ tpc' = "run" /\ tLength /= 0) => tStart' > tStart]_vars

\* ----------------------------------------------------------------- overlap
\* Two constructible intervals, before x.overlap(y) is called.
InitOverlap ==
    /\ ox \in Intervals
    /\ oy \in Intervals
    /\ oResult = None
    /\ opc = "call"
    /\ interval = DateTimeInterval(0, 0)
    /\ interval0 = interval
    /\ intervals = <<>>
    /\ marked = [t \in Instants |-> None]
    /\ lastCall = NoCall
    /\ IdleIntersection
    /\ IdleTiling

\* o = x.overlap(y)
OverlapCall ==
    /\ opc = "call"
    /\ oResult' = overlap(ox, oy)
    /\ opc' = "done"
    /\ UNCHANGED <<ox, oy>>
    /\ UNCHANGED <<msiVars, interVars, tileVars>>

NextOverlap == OverlapCall

SpecOverlap == InitOverlap /\ [][NextOverlap]_vars

\* o is covered by x and by y, and covers every interval that both cover.
ContainedAndMaximal(x, y, o) ==
    /\ covers(x, o)
    /\ covers(y, o)
    /\ \A z \in Intervals : (covers(x, z) /\ covers(y, z)) => covers(o, z)

\* C15: for all intervals x, y (start <= end) with x.overlaps(y), the overlap
\* o = x.overlap(y) satisfies x.covers(o) and y.covers(o), and every interval
\* covered by both x and y is covered by o.
C15_OverlapContainedMaximal ==
    (opc = "done" /\ overlaps(ox, oy)) =>
        (oResult /= None /\ ContainedAndMaximal(ox, oy, oResult))

\* What does hold: the same for x and y that are not empty (start < end).
OverlapContainedMaximalNonEmpty ==
    (opc = "done" /\ overlaps(ox, oy) /\ ox.start < ox.end /\ oy.start < oy.end) =>
        (oResult /= None /\ ContainedAndMaximal(ox, oy, oResult))

\* ------------------------------------------ segment map: runs and progress
\* MultiStatusInterval.intervals_with_status: the intervals of the stored
\* segments whose status is the given one, in storage order.
RECURSIVE WithStatus(_, _)
WithStatus(segs, st) ==
    IF segs = <<>> THEN <<>>
    ELSE IF Head(segs).status = st
         THEN <<Head(segs).interval>> \o WithStatus(Tail(segs), st)
         ELSE WithStatus(Tail(segs), st)

intervals_with_status(st) == WithStatus(intervals, st)

\* The yielded intervals cover exactly the instants whose status is st.
RunsCover(st) ==
    LET ys == intervals_with_status(st) IN
    {t \in Instants : \E k \in 1..Len(ys) : contains(ys[k], t)}
        = {t \in Instants : status(t) = st}

\* C16: maximal runs. For every status s, intervals_with_status(s) yields
\* non-empty intervals, consecutive ones are separated (a.end < b.start), and
\* together they cover exactly the instants t with status(t) = s.
C16_MaximalRuns ==
    \A st \in StrStatuses :
        LET ys == intervals_with_status(st) IN
        /\ \A k \in 1..Len(ys) : ys[k].start < ys[k].end
        /\ \A k \in 1..(Len(ys) - 1) : ys[k].end < ys[k + 1].start
        /\ RunsCover(st)

\* What does hold: the yielded intervals are ascending, do not overlap and
\* cover exactly the instants with the status.
RunsAscendingAndCover ==
    \A st \in StrStatuses :
        LET ys == intervals_with_status(st) IN
        /\ \A k \in 1..(Len(ys) - 1) : ys[k].end <= ys[k + 1].start
        /\ RunsCover(st)

\* C17: the stored segments are strictly ascending by start.
C17_StrictlyAscendingStarts ==
    \A k \in Pairs : Seg(k).interval.start < Seg(k + 1).interval.start

\* What does hold: ascending by start, not strictly.
AscendingStarts ==
    \A k \in Pairs : Seg(k).interval.start <= Seg(k + 1).interval.start

\* C19: from every reachable state, for every interval and str status, the
\* call of _mark that mark makes passes every assertion of _mark and of
\* _smooth_status_intervals and appends to_add exactly once; and no call made
\* so far has ended with an AssertionError.
C19_NoAssertionFails ==
    /\ lastCall.result /= "AssertionError"
    /\ \A iv \in Intervals, st \in StrStatuses :
          LET clipped == overlap(interval, iv) IN
          clipped /= None =>
              LET r == _mark(intervals, _SingleStatusInterval(st, clipped))
              IN  r.ok /\ r.adds = 1

\* The last mark went through the fall-through case with both remainders (it
\* cut a segment in two) in a list that also holds a segment of case (1) or (2).
C19_Witness ==
    /\ lastCall.result = "marked"
    /\ Len(intervals) = 4
    /\ \E k \in 2..3 :
          /\ Seg(k).interval = lastCall.interval
          /\ Seg(k - 1).status = Seg(k + 1).status
          /\ Seg(k - 1).status /= Seg(k).status
          /\ Seg(k - 1).interval.end = Seg(k).interval.start
          /\ Seg(k).interval.end = Seg(k + 1).interval.start

\* C20: coverage only grows. An instant that has a status never goes back to
\* having none.
C20_CoverageGrows ==
    [][\A t \in Instants :
          status(t) /= None => statusOf(interval', intervals', t) /= None]_vars

\* A mark has overwritten part of a segment with another status, and every
\* instant of the old segment still has a status.
C20_Witness ==
    /\ lastCall.result = "marked"
    /\ Len(intervals) = 2
    /\ Seg(1).interval.end = Seg(2).interval.start
    /\ Seg(2).interval = lastCall.interval
    /\ Seg(2).interval.start < Seg(2).interval.end
    /\ Seg(1).interval.start < Seg(1).interval.end
    /\ marked[Seg(2).interval.start] = Seg(2).status
    /\ \A t \in Instants : contains(interval, t) => status(t) /= None

\* ------------------------------------------------- intersection: progress
\* If the current intervals are neither before nor after each other, the
\* assertion before the yield and the assertions a) to d) after it hold for
\* them. (Every pair of intervals is the current pair of some run.)
CurrentAssertsHold ==
    (pc = "loop" /\ ~is_before(i1, i2) /\ ~is_after(i1, i2)) =>
        (overlaps(i1, i2) /\ ProgressAsserts(i1, i2, overlap(i1, i2)))

\* This pass through the merge loop called next() on at least one stream: it
\* took an element, or next() found the stream exhausted.
Advanced ==
    \/ Len(intervals1') < Len(intervals1)
    \/ Len(intervals2') < Len(intervals2)
    \/ pc' \in StopIterationOutcomes

\* C18: every pass through the merge loop advances at least one of the two
\* streams, and none of the embedded assertions fails, for any pair of current
\* intervals.
C18_Progress ==
    /\ [](pc /= "AssertionError" /\ CurrentAssertsHold)
    /\ [][pc = "loop" => Advanced]_vars

\* A pass has emitted an overlap at which both current intervals ended, and
\* both streams moved on to their next interval.
C18_Witness ==
    /\ pc = "loop"
    /\ Len(emitted) = 1
    /\ Len(in1) = 2 /\ Len(in2) = 2
    /\ emitted[1].end = in1[1].end
    /\ emitted[1].end = in2[1].end
    /\ emitted[1].start < emitted[1].end
    /\ i1 = in1[2] /\ i2 = in2[2]
    /\ intervals1 = <<>> /\ intervals2 = <<>>

====
